---- MODULE Spec2Model ----
(***************************************************************************)
(* Model of the dual-store retrieval layer of st_agno: the SQLite wrapper  *)
(* (db/sqlite_manager.py), the ChromaDB wrapper (db/vector_store.py), the  *)
(* RAG coordination layer (utils/rag_utils.py) and the Streamlit handlers  *)
(* of pages/1_Chat.py, pages/2_History.py and app.py that drive them.      *)
(*                                                                         *)
(* Text is a sequence of one-character strings.  uuid4 returns an         *)
(* identifier that occurs nowhere in the stores or the session (the least  *)
(* such number, rendered as a fixed-width string where the code formats    *)
(* it).  datetime.now() returns a time later than every stored timestamp.  *)
(***************************************************************************)
EXTENDS Integers, Sequences, FiniteSets, TLC

\* ------------------------------------------------------------------ bounds
MaxConvs == 2         \* rows of the conversations table
MaxRows == 6          \* rows of the messages table
MaxVectors == 2       \* records of the vector collection
MaxClock == 8         \* latest timestamp datetime.now() returns
MaxSession == 4       \* entries of st.session_state.messages
MaxLimit == 2         \* largest limit passed to RAGSystem.search
MaxSteps == 4         \* handler executions in one behaviour
MaxSearchSteps == 5   \* handler executions before a search
MaxThreads == 3       \* threads created in one behaviour
MaxIdents == 2        \* distinct values of threading.get_ident()
MaxHandles == 3        \* sqlite3 connections opened in one behaviour
MaxRagSteps == 3       \* RAGSystem operations in one behaviour
MaxModels == 2         \* models in one answer of Ollama's /api/tags
MaxConstructions == 4  \* calls of SQLiteManager(...) in one behaviour

\* ------------------------------------------------------- program constants
KeyPrefixLen == 50    \* r['content'][:50]
UuidLen == 36         \* len(str(uuid.uuid4()))

None == 0

\* --------------------------------------------------------------- text data
Min(a, b) == IF a < b THEN a ELSE b

\* LongA and LongB agree on their first KeyPrefixLen characters and differ
\* in the next one; LongA and LongC differ in character KeyPrefixLen
Pad == [i \in 1..(KeyPrefixLen - 1) |-> "x"]
Short == <<"a">>
LongA == Pad \o <<"a", "a">>
LongB == Pad \o <<"a", "b">>
LongC == Pad \o <<"b", "a">>

Prompts == {Short}
Responses == {Short, LongA}
LongResponses == {LongA, LongB, LongC}
Queries == {Short, <<"_">>, <<"B">>}
Titles == {"New Conversation", "T"}
Models == {"llama3.1", "mistral"}

\* ------------------------------------------------- db/sqlite_manager.py
Digit(d) == <<"0", "1", "2", "3", "4", "5", "6", "7", "8", "9">>[d + 1]

RECURSIVE Pow10(_)
Pow10(n) == IF n = 0 THEN 1 ELSE 10 * Pow10(n - 1)

\* str(uuid) : a fixed-width rendering of the identifier
IdStr(n) == [i \in 1..UuidLen |->
               IF UuidLen - i > 8 THEN "0"
               ELSE Digit((n \div Pow10(UuidLen - i)) % 10)]

\* uuid.uuid4(): an identifier not held anywhere
UsedIds(s) ==
    s.held \cup {c.id : c \in s.conversations}
           \cup {s.messages[i].id : i \in 1..Len(s.messages)}
           \cup {s.messages[i].conversation_id : i \in 1..Len(s.messages)}
           \cup {v.id : v \in s.vectors}
           \cup {v.metadata.conversation_id : v \in s.vectors}

uuid4(s) == LET used == UsedIds(s)
            IN CHOOSE n \in 1..(Cardinality(used) + 1) :
                  n \notin used /\ \A m \in 1..(n - 1) : m \in used

\* datetime.now(): later than every timestamp stored so far
UsedTimes(s) ==
    {c.created_at : c \in s.conversations}
    \cup {c.updated_at : c \in s.conversations}
    \cup {s.messages[i].created_at : i \in 1..Len(s.messages)}

now(s) == LET used == UsedTimes(s)
          IN IF used = {} THEN 1
             ELSE 1 + CHOOSE t \in used : \A u \in used : u <= t

\* variant: the row stores the model as the title and the title as the model
ConversationRowSwapped(id, title, created_at, model, updated_at) ==
    [id |-> id, title |-> model, created_at |-> created_at,
     model |-> title, updated_at |-> updated_at]

ConversationRow(id, title, created_at, model, updated_at) ==
    [id |-> id, title |-> title, created_at |-> created_at,
     model |-> model, updated_at |-> updated_at]

MessageRow(id, conversation_id, role, content, created_at) ==
    [id |-> id, conversation_id |-> conversation_id, role |-> role,
     content |-> content, created_at |-> created_at]

\* INSERT INTO conversations: the id is a fresh uuid4, both timestamps now
create_conversation(s, title, model, db_ok) ==
    IF db_ok
    THEN LET conversation_id == uuid4(s)
             ts_now == now(s)
         IN [st |-> [s EXCEPT !.conversations = @ \cup
                       {ConversationRow(conversation_id, title, ts_now, model,
                                        ts_now)}],
             ret |-> conversation_id]
    ELSE [st |-> s, ret |-> None]

\* INSERT INTO messages: no check of conversation_id (foreign keys are
\* declared but the connection never enables their enforcement)
add_message(s, conversation_id, role, content, db_ok) ==
    IF db_ok
    THEN LET message_id == uuid4(s)
             ts_now == now(s)
         IN [st |-> [s EXCEPT !.messages = Append(@,
                       MessageRow(message_id, conversation_id, role, content,
                                  ts_now))],
             ret |-> message_id]
    ELSE [st |-> s, ret |-> None]

\* ORDER BY created_at over a set of rows (ascending)
RECURSIVE OrderByCreatedAt(_)
OrderByCreatedAt(rows) ==
    IF rows = {} THEN <<>>
    ELSE LET first == CHOOSE r \in rows :
                        \A q \in rows : r.created_at <= q.created_at
         IN <<first>> \o OrderByCreatedAt(rows \ {first})

\* ORDER BY updated_at DESC over a set of rows
RECURSIVE OrderByUpdatedAtDesc(_)
OrderByUpdatedAtDesc(rows) ==
    IF rows = {} THEN <<>>
    ELSE LET first == CHOOSE r \in rows :
                        \A q \in rows : r.updated_at >= q.updated_at
         IN <<first>> \o OrderByUpdatedAtDesc(rows \ {first})

MessagesOf(s, conversation_id) ==
    {s.messages[i] : i \in {j \in 1..Len(s.messages) :
                              s.messages[j].conversation_id = conversation_id}}

NoConversation == [id |-> None]

\* SELECT the conversation row, then its messages ORDER BY created_at
get_conversation(s, conversation_id, db_ok) ==
    IF ~db_ok THEN NoConversation
    ELSE IF \A c \in s.conversations : c.id # conversation_id THEN NoConversation
    ELSE LET row == CHOOSE c \in s.conversations : c.id = conversation_id
         IN [id |-> row.id, title |-> row.title, created_at |-> row.created_at,
             model |-> row.model, updated_at |-> row.updated_at,
             messages |-> OrderByCreatedAt(MessagesOf(s, conversation_id))]

\* DELETE FROM messages WHERE conversation_id = ?; DELETE FROM conversations
\* variant: DELETE FROM messages without the WHERE clause
DeleteMessageRowsAll(msgs, conversation_id) == <<>>

\* variant: the messages of the conversation are left in the table
DeleteMessageRowsKept(msgs, conversation_id) == msgs

DeleteMessageRows(msgs, conversation_id) ==
    SelectSeq(msgs, LAMBDA m : m.conversation_id # conversation_id)

delete_conversation(s, conversation_id, db_ok) ==
    IF db_ok
    THEN [st |-> [s EXCEPT !.messages = DeleteMessageRows(@, conversation_id),
                   !.conversations = {c \in @ : c.id # conversation_id}],
          ret |-> TRUE]
    ELSE [st |-> s, ret |-> FALSE]

\* SQLite LIKE: case-insensitive for ASCII letters, _ matches one character,
\* % matches any run of characters
Lower(ch) == IF ch = "A" THEN "a" ELSE IF ch = "B" THEN "b" ELSE ch

RECURSIVE LikeMatch(_, _)
LikeMatch(text, pat) ==
    IF pat = <<>> THEN text = <<>>
    ELSE IF Head(pat) = "%"
         THEN LikeMatch(text, Tail(pat))
              \/ (text # <<>> /\ LikeMatch(Tail(text), pat))
    ELSE IF text = <<>> THEN FALSE
    ELSE (Head(pat) = "_" \/ Lower(Head(pat)) = Lower(Head(text)))
         /\ LikeMatch(Tail(text), Tail(pat))

\* search_term = f"%{query}%"
SearchTerm(query) == <<"%">> \o query \o <<"%">>

\* variant: a slice that cuts nothing
TakeAll(seq, n) == seq

Take(seq, n) == SubSeq(seq, 1, Min(Len(seq), n))

\* SELECT DISTINCT c.* FROM conversations c JOIN messages m ON c.id =
\* m.conversation_id WHERE m.content LIKE ? ORDER BY c.updated_at DESC LIMIT ?
search_conversations(s, query, limit, db_ok) ==
    IF ~db_ok THEN <<>>
    ELSE LET hit == {c \in s.conversations :
                       \E m \in MessagesOf(s, c.id) :
                          LikeMatch(m.content, SearchTerm(query))}
             ordered == OrderByUpdatedAtDesc(hit)
         IN IF limit < 0 THEN ordered ELSE Take(ordered, limit)

\* ------------------------------------------------- db/vector_store.py
\* Outcomes of the calls into ChromaDB / LangChain made by one handler:
\*   init, add, search : "ok", "dim" (embedding dimension mismatch), "err"
\*   recreate          : "ok", "fail_kept", "fail_lost" (the recovery failed
\*                       and the persisted records survived / were removed)
\*   retry, get, del   : "ok", "err"
\*   db_ok             : FALSE when SQLite raises sqlite3.Error
CallOutcome == {"ok", "dim", "err"}
RecreateOutcome == {"ok", "fail_kept", "fail_lost"}
PlainOutcome == {"ok", "err"}

Oracles == [init : CallOutcome, add : CallOutcome, search : CallOutcome,
            recreate : RecreateOutcome, retry : PlainOutcome,
            get : PlainOutcome, del : PlainOutcome, db_ok : BOOLEAN]

AllOk == [init |-> "ok", add |-> "ok", search |-> "ok", recreate |-> "ok",
          retry |-> "ok", get |-> "ok", del |-> "ok", db_ok |-> TRUE]

\* the outcomes a handler that makes no vector-store call can meet
DbOracles == {o \in Oracles : \A f \in DOMAIN o \ {"db_ok"} : o[f] = AllOk[f]}

Metadata(conversation_id, conversation_title, role) ==
    [conversation_id |-> conversation_id,
     conversation_title |-> conversation_title, role |-> role]

VectorRecord(message_id, content, metadata) ==
    [id |-> message_id, document |-> content, metadata |-> metadata]

\* variant: a recovery that keeps the records of the old collection
recreate_collection_keeping(s, o) ==
    IF o.recreate = "ok"
    THEN [s EXCEPT !.collection = TRUE, !.langchain_chroma = TRUE,
                   !.was_reset = TRUE]
    ELSE [s EXCEPT !.collection = FALSE, !.langchain_chroma = FALSE]

\* delete and re-create the collection; on failure of both attempts the
\* collection and the LangChain wrapper are set to None
recreate_collection(s, o) ==
    IF o.recreate = "ok"
    THEN [s EXCEPT !.vectors = {}, !.collection = TRUE,
                   !.langchain_chroma = TRUE, !.was_reset = TRUE]
    ELSE [s EXCEPT !.vectors = IF o.recreate = "fail_lost" THEN {} ELSE @,
                   !.collection = FALSE, !.langchain_chroma = FALSE]

\* VectorStore.__init__ with _initialize_collection
vector_store_init(s, o) ==
    LET fresh == [s EXCEPT !.was_reset = FALSE, !.collection = FALSE,
                           !.langchain_chroma = FALSE]
    IN CASE o.init = "ok" -> [fresh EXCEPT !.collection = TRUE,
                                           !.langchain_chroma = TRUE]
         [] o.init = "dim" -> recreate_collection(fresh, o)
         [] OTHER -> fresh

CollectionAdd(s, message_id, content, metadata) ==
    [s EXCEPT !.vectors = @ \cup {VectorRecord(message_id, content, metadata)}]

\* (raised: the handler of a non-dimension error reads the session's
\* chroma_warnings_shown; ret means nothing when raised; adds: how many
\* times collection.add was issued)
vs_add_message(s, message_id, content, metadata, o) ==
    IF ~s.collection
    THEN [st |-> s, ret |-> FALSE, raised |-> FALSE, adds |-> 0]
    ELSE CASE o.add = "ok" ->
                [st |-> CollectionAdd(s, message_id, content, metadata),
                 ret |-> TRUE, raised |-> FALSE, adds |-> 1]
           [] o.add = "dim" ->
                LET s1 == recreate_collection(s, o)
                IN IF ~s1.collection
                   THEN [st |-> s1, ret |-> FALSE, raised |-> FALSE,
                         adds |-> 1]
                   ELSE IF o.retry = "ok"
                   THEN [st |-> CollectionAdd(s1, message_id, content, metadata),
                         ret |-> TRUE, raised |-> FALSE, adds |-> 2]
                   ELSE [st |-> [s1 EXCEPT !.was_reset = TRUE], ret |-> FALSE,
                         raised |-> FALSE, adds |-> 2]
           [] OTHER -> [st |-> s, ret |-> FALSE, raised |-> ~s.flag,
                        adds |-> 1]

\* the order of the records by distance to the query is decided by the
\* embeddings, so any order of the collection is possible
Rankings(vectors) ==
    LET n == Cardinality(vectors)
    IN {r \in [1..n -> vectors] : \A i, j \in 1..n : i # j => r[i] # r[j]}

FormatResult(rec) == [content |-> rec.document, metadata |-> rec.metadata]

\* similarity_search(query, k=n_results): the n_results nearest records
\* (the handler of any other error reads the session's
\* chroma_warnings_shown, which raises AttributeError in a session that does
\* not have it)
semantic_search(s, n_results, o, ranking) ==
    IF ~s.langchain_chroma THEN [st |-> s, ret |-> <<>>, raised |-> FALSE]
    ELSE CASE o.search = "ok" ->
                LET nearest == Take(ranking, n_results)
                IN [st |-> s,
                    ret |-> [i \in 1..Len(nearest) |-> FormatResult(nearest[i])],
                    raised |-> FALSE]
           [] o.search = "dim" ->
                [st |-> [recreate_collection(s, o) EXCEPT !.was_reset = TRUE],
                 ret |-> <<>>, raised |-> FALSE]
           [] OTHER -> [st |-> s, ret |-> <<>>, raised |-> ~s.flag]

delete_conversation_messages(s, conversation_id, o) ==
    IF ~s.collection THEN [st |-> s, ret |-> FALSE, raised |-> FALSE]
    ELSE IF o.get = "err" THEN [st |-> s, ret |-> FALSE, raised |-> ~s.flag]
    ELSE LET ids == {v.id : v \in {w \in s.vectors :
                        w.metadata.conversation_id = conversation_id}}
         IN IF ids = {} THEN [st |-> s, ret |-> TRUE, raised |-> FALSE]
            ELSE IF o.del = "err"
            THEN [st |-> s, ret |-> FALSE, raised |-> ~s.flag]
            ELSE [st |-> [s EXCEPT !.vectors = {v \in @ : v.id \notin ids}],
                  ret |-> TRUE, raised |-> FALSE]

\* ------------------------------------------------- utils/rag_utils.py
RowHasKey(row, k) == k \in DOMAIN row

\* the key of the message row read for the item's timestamp
TimestampKey == "timestamp"

AssistantOnly(msgs) == SelectSeq(msgs, LAMBDA m : m.role = "assistant")

\* the (conversation, assistant message) pairs the text-search loop visits
RECURSIVE TextVisit(_, _, _)
TextVisit(s, convs, db_ok) ==
    IF convs = <<>> THEN <<>>
    ELSE LET conv == Head(convs)
             full_conv == get_conversation(s, conv.id, db_ok)
             msgs == IF full_conv.id # None
                     THEN AssistantOnly(full_conv.messages) ELSE <<>>
         IN [i \in 1..Len(msgs) |-> [conv |-> conv, msg |-> msgs[i]]]
            \o TextVisit(s, Tail(convs), db_ok)

TextItem(conv, msg) ==
    [content |-> msg.content, source |-> "text_search",
     conversation_id |-> conv.id, conversation_title |-> conv.title]

SemanticItem(result) ==
    [content |-> result.content, source |-> "semantic_search",
     conversation_id |-> result.metadata.conversation_id,
     conversation_title |-> result.metadata.conversation_title]

\* the text-search branch of RAGSystem.search: building an item reads
\* msg[TimestampKey]; a missing key raises KeyError, which ends the branch
\* with the items appended so far
text_search(s, query, limit, db_ok) ==
    LET visit == TextVisit(s, search_conversations(s, query, limit, db_ok), db_ok)
        raising == {i \in 1..Len(visit) : ~RowHasKey(visit[i].msg, TimestampKey)}
        n == IF raising = {} THEN Len(visit)
             ELSE (CHOOSE i \in raising : \A j \in raising : i <= j) - 1
    IN [i \in 1..n |-> TextItem(visit[i].conv, visit[i].msg)]

\* variant: the key takes one character more of the content
DedupKeyLonger(r) ==
    IdStr(r.conversation_id) \o <<"_">> \o Take(r.content, KeyPrefixLen + 1)

\* variant: the key leaves the conversation id out
DedupKeyContentOnly(r) == Take(r.content, KeyPrefixLen)

\* the try block of the text-search branch has raised
text_search_raises(s, query, limit, db_ok) ==
    LET visit == TextVisit(s, search_conversations(s, query, limit, db_ok), db_ok)
    IN \E i \in 1..Len(visit) : ~RowHasKey(visit[i].msg, TimestampKey)

\* key = f"{r['conversation_id']}_{r['content'][:50]}"
DedupKey(r) == IdStr(r.conversation_id) \o <<"_">> \o Take(r.content, KeyPrefixLen)

\* first occurrence of every key, in order of first occurrence
RECURSIVE Dedup(_, _)
Dedup(results, seen) ==
    IF results = <<>> THEN <<>>
    ELSE IF DedupKey(Head(results)) \in seen THEN Dedup(Tail(results), seen)
    ELSE <<Head(results)>> \o Dedup(Tail(results), seen \cup {DedupKey(Head(results))})

\* list[:limit]
Slice(seq, limit) ==
    IF limit >= 0 THEN Take(seq, limit)
    ELSE SubSeq(seq, 1, Len(seq) + limit)

\* (the except clauses of both branches read the session's
\* chroma_warnings_shown outside any try: in a session that does not have
\* it the AttributeError leaves search, before anything else is done)
\* the semantic branch, the deduplication and the slice, given the items
\* of the text branch and whether its except clause has raised
search_rest(s, text, text_raised, use_semantic, limit, o, ranking) ==
    LET asked == use_semantic /\ ~s.chroma_reset /\ ~text_raised
        sem == IF asked THEN semantic_search(s, limit, o, ranking)
               ELSE [st |-> s, ret |-> <<>>, raised |-> FALSE]
        s1 == IF asked /\ sem.st.was_reset
              THEN [sem.st EXCEPT !.chroma_reset = TRUE] ELSE sem.st
        semantic == IF asked /\ ~sem.st.was_reset
                    THEN [i \in 1..Len(sem.ret) |-> SemanticItem(sem.ret[i])]
                    ELSE <<>>
        results == text \o semantic
        unique_results == Dedup(results, {})
    IN [st |-> s1, ret |-> Slice(unique_results, limit),
        results |-> results, unique_results |-> unique_results,
        raised |-> text_raised \/ sem.raised,
        calls |-> IF asked THEN 1 ELSE 0]

rag_search(s, query, use_semantic, use_text, limit, o, ranking) ==
    search_rest(s,
                IF use_text THEN text_search(s, query, limit, o.db_ok) ELSE <<>>,
                use_text /\ ~s.flag
                   /\ text_search_raises(s, query, limit, o.db_ok),
                use_semantic, limit, o, ranking)

RECURSIVE AddMessages(_, _, _, _)
AddMessages(s, conversation_id, msgs, db_ok) ==
    IF msgs = <<>> THEN s
    ELSE AddMessages(add_message(s, conversation_id, Head(msgs).role,
                                 Head(msgs).content, db_ok).st,
                     conversation_id, Tail(msgs), db_ok)

\* the vector-store loop of add_conversation_to_stores: every assistant
\* message is added under a fresh uuid4; chroma_reset is read once, before
\* the loop (calls: how many times VectorStore.add_message was called)
RECURSIVE AddVectors(_, _, _, _, _, _)
AddVectors(s, conversation_id, title, msgs, o, calls) ==
    IF msgs = <<>> THEN [st |-> s, raised |-> FALSE, calls |-> calls]
    ELSE IF Head(msgs).role # "assistant"
    THEN AddVectors(s, conversation_id, title, Tail(msgs), o, calls)
    ELSE LET r == vs_add_message(s, uuid4(s), Head(msgs).content,
                      Metadata(conversation_id, title, "assistant"), o)
             s1 == IF r.st.was_reset
                   THEN [r.st EXCEPT !.chroma_reset = TRUE] ELSE r.st
         IN IF r.raised
            THEN [st |-> r.st, raised |-> TRUE, calls |-> calls + 1]
            ELSE AddVectors(s1, conversation_id, title, Tail(msgs), o,
                            calls + 1)

add_conversation_to_stores(s, conversation_id, title, model, msgs, o) ==
    LET missing == get_conversation(s, conversation_id, o.db_ok).id = None
        c == create_conversation(s, title, model, o.db_ok)
        s1 == IF missing
              THEN AddMessages(c.st, conversation_id, msgs, o.db_ok) ELSE s
        v == IF ~s1.chroma_reset
             THEN AddVectors(s1, conversation_id, title, msgs, o, 0)
             ELSE [st |-> s1, raised |-> FALSE, calls |-> 0]
    IN [st |-> v.st, ret |-> ~v.raised, raised |-> v.raised,
        calls |-> v.calls,
        created |-> IF missing /\ c.ret # None
                    THEN {[id |-> c.ret, title |-> title, model |-> model]}
                    ELSE {}]

add_message_to_stores(s, conversation_id, role, content, conversation_title, o) ==
    LET a == add_message(s, conversation_id, role, content, o.db_ok)
        message_id == a.ret
    IN IF role = "assistant" /\ message_id # None /\ ~a.st.chroma_reset
       THEN LET r == vs_add_message(a.st, message_id, content,
                        Metadata(conversation_id, conversation_title, role), o)
            IN [st |-> IF r.st.was_reset
                       THEN [r.st EXCEPT !.chroma_reset = TRUE] ELSE r.st,
                ret |-> message_id, raised |-> r.raised, calls |-> 1]
       ELSE [st |-> a.st, ret |-> message_id, raised |-> FALSE, calls |-> 0]

\* variant: the vector store is asked whatever chroma_reset says
rag_delete_conversation_unguarded(s, conversation_id, o) ==
    LET v == delete_conversation_messages(s, conversation_id, o)
        d == delete_conversation(v.st, conversation_id, o.db_ok)
    IN IF v.raised
       THEN [st |-> v.st, ret |-> FALSE, raised |-> TRUE, calls |-> 1]
       ELSE [st |-> d.st, ret |-> d.ret, raised |-> FALSE, calls |-> 1]

\* the vector store is asked first (its result is not looked at), then SQLite
rag_delete_conversation(s, conversation_id, o) ==
    LET v == IF ~s.chroma_reset
             THEN delete_conversation_messages(s, conversation_id, o)
             ELSE [st |-> s, raised |-> FALSE]
        d == delete_conversation(v.st, conversation_id, o.db_ok)
        calls == IF ~s.chroma_reset THEN 1 ELSE 0
    IN IF v.raised
       THEN [st |-> v.st, ret |-> FALSE, raised |-> TRUE, calls |-> calls]
       ELSE [st |-> d.st, ret |-> d.ret, raised |-> FALSE, calls |-> calls]

\* RAGSystem.__init__: a new VectorStore, chroma_reset copied from was_reset
rag_init(s, o) ==
    LET s1 == vector_store_init(s, o)
    IN [s1 EXCEPT !.chroma_reset = s1.was_reset]

\* ------------------------------------------------- pages/1_Chat.py
ContentsOf(msgs) == {msgs[i].content : i \in 1..Len(msgs)}

save_conversation_to_db(s, conversation_id, title, model, msgs, db_ok) ==
    LET existing == get_conversation(s, conversation_id, db_ok)
        c == create_conversation(s, title, model, db_ok)
        s1 == IF existing.id = None THEN c.st ELSE s
        existing_message_contents ==
            IF existing.id # None THEN ContentsOf(existing.messages) ELSE {}
        new == SelectSeq(msgs, LAMBDA m : m.content \notin existing_message_contents)
    IN [st |-> AddMessages(s1, conversation_id, new, db_ok), ret |-> TRUE,
        created |-> IF existing.id = None /\ c.ret # None
                    THEN {[id |-> c.ret, title |-> title, model |-> model]}
                    ELSE {}]

\* ------------------------------------------------------------ the state
VARIABLES
    conversations,      \* rows of table conversations
    messages,           \* rows of table messages, in insertion order
    vectors,            \* records of the persisted ChromaDB collection
    collection,         \* RAGSystem.vector_store.collection is not None
    langchain_chroma,   \* RAGSystem.vector_store.langchain_chroma is not None
    was_reset,          \* RAGSystem.vector_store.was_reset
    chroma_reset,       \* RAGSystem.chroma_reset
    conversation_id,    \* st.session_state.conversation_id
    conversation_title, \* st.session_state.conversation_title
    session_messages,   \* st.session_state.messages
    selected_model,     \* st.session_state.selected_model
    budget,             \* handler executions left in this behaviour
    last,               \* the last handler run, its arguments and results
    threads,            \* the threads of the process that use SQLiteManager
    _connections,       \* SQLiteManager._connections, in insertion order
    handles,            \* the sqlite3 connections opened so far
    chroma_warnings_flag, \* "chroma_warnings_shown" in st.session_state
    ollama_models,      \* st.session_state.ollama_models
    ollama_connected,   \* st.session_state.ollama_connected
    _instance,          \* SQLiteManager._instance
    _lock,              \* the thread that holds SQLiteManager._lock
    instances,          \* the SQLiteManager objects created so far
    callers             \* the threads' positions in SQLiteManager(db_path)

vars == <<conversations, messages, vectors, collection, langchain_chroma,
          was_reset, chroma_reset, conversation_id,
          conversation_title, session_messages, selected_model, budget,
          last, threads, _connections, handles, chroma_warnings_flag,
          ollama_models, ollama_connected, _instance, _lock, instances,
          callers>>

\* the class attributes of SQLiteManager and the calls of its constructor
singleton_vars == <<_instance, _lock, instances, callers>>

\* what the page handlers, which run in one script thread, leave alone
side_vars == <<threads, _connections, handles, chroma_warnings_flag,
               ollama_models, ollama_connected, _instance, _lock, instances,
               callers>>

St == [conversations |-> conversations, messages |-> messages,
       vectors |-> vectors, collection |-> collection,
       langchain_chroma |-> langchain_chroma, was_reset |-> was_reset,
       chroma_reset |-> chroma_reset, held |-> {conversation_id},
       flag |-> chroma_warnings_flag]

Commit(s) ==
    /\ conversations' = s.conversations
    /\ messages' = s.messages
    /\ vectors' = s.vectors
    /\ collection' = s.collection
    /\ langchain_chroma' = s.langchain_chroma
    /\ was_reset' = s.was_reset
    /\ chroma_reset' = s.chroma_reset

WithinBounds(s) ==
    /\ Cardinality(s.conversations) <= MaxConvs
    /\ Len(s.messages) <= MaxRows
    /\ Cardinality(s.vectors) <= MaxVectors
    /\ now(s) <= MaxClock + 1

NoThread == [state |-> "new", ident |-> None, got |-> {}]

Step == budget > 0 /\ budget' = budget - 1

DefaultTitle == "New Conversation"
DefaultModel == "llama3.1"

SessionMessage(role, content) == [role |-> role, content |-> content]

\* outcomes that matter to a handler: recreate is drawn only when a call
\* meets a dimension mismatch, retry only when an add meets one
InitOracles == {o \in Oracles : /\ o.add = "ok" /\ o.search = "ok"
                                /\ o.retry = "ok" /\ o.get = "ok"
                                /\ o.del = "ok" /\ o.db_ok
                                /\ (o.init # "dim" => o.recreate = "ok")}
SearchOracles == {o \in Oracles : /\ o.init = "ok" /\ o.add = "ok"
                                  /\ o.retry = "ok" /\ o.get = "ok"
                                  /\ o.del = "ok"
                                  /\ (o.search # "dim" => o.recreate = "ok")}
DeleteOracles == {o \in Oracles : /\ o.init = "ok" /\ o.add = "ok"
                                  /\ o.search = "ok" /\ o.retry = "ok"
                                  /\ o.recreate = "ok"
                                  /\ (o.get = "err" => o.del = "ok")}
\* in the prompt handler the result of the search is only used for the
\* model's context, so a failed search ("err") acts as an empty one ("ok");
\* after a mismatch in the search no add is attempted
PromptOracles == {o \in Oracles : /\ o.init = "ok" /\ o.get = "ok"
                                  /\ o.del = "ok" /\ o.search # "err"
                                  /\ (o.search = "dim" => o.add = "ok")
                                  /\ (o.search # "dim" /\ o.add # "dim"
                                        => o.recreate = "ok")
                                  /\ (o.add # "dim" \/ o.recreate # "ok"
                                        => o.retry = "ok")}

\* the outcomes of the calls a handler actually makes
RelevantOracles(searches, adds) ==
    {o \in PromptOracles : /\ (~searches => o.search = "ok")
                           /\ (~adds => o.add = "ok")
                           /\ (~searches /\ ~adds => o.recreate = "ok")}

\* ------------------------------------------------- utils/ollama_utils.py
\* Model names are sequences of characters. Python compares strings by
\* code point; Alphabet lists the characters used here in that order.
Alphabet == <<"-", ".", "1", "3", ":", "a", "e", "i", "l", "m", "r", "s",
              "t", "x">>
Ord(ch) == CHOOSE i \in 1..Len(Alphabet) : Alphabet[i] = ch

RECURSIVE StrLess(_, _)
StrLess(a, b) ==
    IF b = <<>> THEN FALSE
    ELSE IF a = <<>> THEN TRUE
    ELSE IF Head(a) # Head(b) THEN Ord(Head(a)) < Ord(Head(b))
    ELSE StrLess(Tail(a), Tail(b))

LatestTag == <<":", "l", "a", "t", "e", "s", "t">>

StartsWith(str, pat) ==
    Len(pat) <= Len(str) /\ SubSeq(str, 1, Len(pat)) = pat

\* str.replace(old, ""): every occurrence of old, from the left
RECURSIVE Remove(_, _)
Remove(str, old) ==
    IF str = <<>> THEN <<>>
    ELSE IF StartsWith(str, old)
    THEN Remove(SubSeq(str, Len(old) + 1, Len(str)), old)
    ELSE <<Head(str)>> \o Remove(Tail(str), old)

\* sorted(names)
RECURSIVE Insert(_, _)
Insert(x, sorted) ==
    IF sorted = <<>> THEN <<x>>
    ELSE IF StrLess(x, Head(sorted)) THEN <<x>> \o sorted
    ELSE <<Head(sorted)>> \o Insert(x, Tail(sorted))

RECURSIVE Sorted(_)
Sorted(names) ==
    IF names = <<>> THEN <<>>
    ELSE Insert(names[Len(names)], Sorted(SubSeq(names, 1, Len(names) - 1)))

\* what the server reports: "m:latest", "m-1", "a:latest", and a model
\* entry that has no "name"
InstalledNames == {<<"m">> \o LatestTag, <<"m", "-", "1">>,
                   <<"a">> \o LatestTag}
ModelEntries == [name : InstalledNames] \cup {[model |-> <<"x">>]}
TagLists == UNION {[1..n -> ModelEntries] : n \in 0..MaxModels}

\* One round of requests to the Ollama server.
\*   check : the value check_connection returns (status 200 or not)
\*   tags  : "ok"    /api/tags answers 200 and its "models" is a list
\*           "error" the request fails or is not answered with 200
\*           "null"  /api/tags answers 200 with "models": null
OllamaDown == [check |-> FALSE, tags |-> "error", models |-> <<>>]
OllamaOutcomes ==
    {OllamaDown}
    \cup {[check |-> TRUE, tags |-> "ok", models |-> m] : m \in TagLists}
    \cup {[check |-> TRUE, tags |-> t, models |-> <<>>] :
            t \in {"error", "null"}}

check_connection(oc) == oc.check

\* the list, or None for "models": null
list_models(oc) ==
    CASE oc.tags = "ok" -> [ret |-> oc.models, null |-> FALSE]
      [] oc.tags = "null" -> [ret |-> <<>>, null |-> TRUE]
      [] OTHER -> [ret |-> <<>>, null |-> FALSE]

RECURSIVE StrippedNames(_)
StrippedNames(models) ==
    IF models = <<>> THEN <<>>
    ELSE (IF "name" \in DOMAIN Head(models)
          THEN <<Remove(Head(models).name, LatestTag)>> ELSE <<>>)
         \o StrippedNames(Tail(models))

get_model_names_unsorted(oc) ==
    LET models == list_models(oc)
    IN [ret |-> StrippedNames(models.ret), raised |-> models.null]

\* (iterating over None raises TypeError)
get_model_names(oc) ==
    LET models == list_models(oc)
    IN [ret |-> Sorted(StrippedNames(models.ret)), raised |-> models.null]

\* ------------------------------------------------------------ app.py
DEFAULT_MODEL_LIST ==
    <<<<"l", "l", "a", "m", "a", "3", ".", "1">>,
      <<"m", "i", "s", "t", "r", "a", "l">>,
      <<"m", "i", "x", "t", "r", "a", "l">>>>

\* "Check Ollama connection and populate models"; s holds the session's
\* ollama_models and ollama_connected, api is False for a client of None
ollama_check(s, api, oc) ==
    IF ~api THEN [s EXCEPT !.ollama_models = DEFAULT_MODEL_LIST]
    ELSE LET connected == check_connection(oc)
             names == get_model_names(oc)
         IN IF ~connected
            THEN [ollama_models |-> DEFAULT_MODEL_LIST,
                  ollama_connected |-> FALSE]
            ELSE IF names.raised
            THEN [ollama_models |-> DEFAULT_MODEL_LIST,
                  ollama_connected |-> FALSE]
            ELSE [ollama_models |-> IF names.ret = <<>>
                                    THEN DEFAULT_MODEL_LIST ELSE names.ret,
                  ollama_connected |-> connected]

\* lines 34-35, then the check; OllamaAPI() only stores its arguments, so
\* the session's client is never None
first_ollama_check(oc) ==
    ollama_check([ollama_models |-> <<>>, ollama_connected |-> FALSE],
                 TRUE, oc)

\* first execution of the start-up script in the first session after a
\* restart of the server: a new conversation id, a VectorStore of its own
\* and the RAGSystem's
app_start(s, o1, o2) ==
    LET v == vector_store_init(s, o1).vectors
    IN rag_init([s EXCEPT !.vectors = v], o2)

\* SQLiteManager(db_path): the default path, the attributes a new object
\* has before __new__ assigns them, a thread that is not in the constructor
DefaultDbPath == "chat_history.db"
DbPaths == {DefaultDbPath, "other.db"}
NoPath == "unassigned"
NotCalling == [pc |-> "idle", db_path |-> DefaultDbPath, ret |-> None]

\* the class as the import leaves it
NotConstructed ==
    /\ _instance = None
    /\ _lock = None
    /\ instances = <<>>
    /\ callers = [t \in 1..MaxThreads |-> NotCalling]

\* the class after app.py has called SQLiteManager()
Constructed ==
    /\ _instance = 1
    /\ _lock = None
    /\ instances = <<[db_path |-> DefaultDbPath, _connections |-> 1]>>
    /\ callers = [t \in 1..MaxThreads |-> NotCalling]

SessionState(steps, flag, outcomes) ==
    /\ budget = steps
    /\ chroma_warnings_flag = flag
    /\ \E oc \in outcomes :
          /\ ollama_models = first_ollama_check(oc).ollama_models
          /\ ollama_connected = first_ollama_check(oc).ollama_connected
          /\ last = [op |-> "start", ollama |-> oc]
    /\ \E o \in InitOracles :
          LET s == rag_init([conversations |-> {}, messages |-> <<>>,
                             vectors |-> {}, collection |-> FALSE,
                             langchain_chroma |-> FALSE, was_reset |-> FALSE,
                             chroma_reset |-> FALSE, held |-> {},
                             flag |-> flag], o)
          IN /\ conversations = s.conversations /\ messages = s.messages
             /\ vectors = s.vectors /\ collection = s.collection
             /\ langchain_chroma = s.langchain_chroma
             /\ was_reset = s.was_reset /\ chroma_reset = s.chroma_reset
    /\ conversation_id = 1
    /\ conversation_title = DefaultTitle
    /\ session_messages = <<>>
    /\ selected_model = DefaultModel
    /\ threads = [t \in 1..MaxThreads |-> NoThread]
    /\ _connections = <<>>
    /\ handles = <<>>

StartSession(steps, flag, outcomes) ==
    SessionState(steps, flag, outcomes) /\ Constructed

\* the first session of a server process: importing db.vector_store and
\* utils.rag_utils has set the session's chroma_warnings_shown; the
\* Ollama server is not running
Start(steps) == StartSession(steps, TRUE, {OllamaDown})

Init == Start(MaxSteps)

AppStart ==
    /\ Step
    /\ UNCHANGED <<threads, _connections, handles, chroma_warnings_flag>>
    /\ UNCHANGED singleton_vars
    /\ \E o1 \in InitOracles, o2 \in InitOracles :
       LET s == app_start(St, o1, o2)
       IN /\ Commit(s)
          /\ conversation_id' = uuid4(St)
          /\ conversation_title' = DefaultTitle
          /\ session_messages' = <<>>
          /\ selected_model' = DefaultModel
          /\ ollama_models' = first_ollama_check(OllamaDown).ollama_models
          /\ ollama_connected' = first_ollama_check(OllamaDown).ollama_connected
          /\ last' = [op |-> "start", ollama |-> OllamaDown]

\* "Start New Conversation" button
StartNewConversation ==
    /\ Step
    /\ UNCHANGED side_vars
    /\ conversation_id' = uuid4(St)
    /\ conversation_title' = DefaultTitle
    /\ session_messages' = <<>>
    /\ last' = [op |-> "new"]
    /\ UNCHANGED <<conversations, messages, vectors, collection,
                   langchain_chroma, was_reset, chroma_reset, selected_model>>

\* ------------------------------------------------- pages/1_Chat.py
\* every execution of the page saves the session's messages when there
\* are any
rerun_save(s, db_ok) ==
    IF Len(session_messages) > 0
    THEN save_conversation_to_db(s, conversation_id, conversation_title,
                                 selected_model, session_messages, db_ok)
    ELSE [st |-> s, ret |-> TRUE, created |-> {}]

\* a re-execution with no event but the model select box
ChatRerun ==
    /\ Step
    /\ UNCHANGED side_vars
    /\ \E model \in Models, o \in DbOracles :
       LET r == save_conversation_to_db(St, conversation_id, conversation_title,
                                        model, session_messages, o.db_ok)
       IN /\ Len(session_messages) > 0 \/ model # selected_model
          /\ IF Len(session_messages) > 0
             THEN /\ WithinBounds(r.st)
                  /\ Commit(r.st)
                  /\ last' = [op |-> "save", ret |-> r.ret,
                              created |-> r.created, db_ok |-> o.db_ok]
             ELSE /\ Commit(St)
                  /\ last' = [op |-> "model"]
          /\ selected_model' = model
          /\ UNCHANGED <<conversation_id, conversation_title, session_messages>>

\* "Force Save Current Conversation" button, then the rest of the page
force_save(s, db_ok) ==
    LET existing == get_conversation(s, conversation_id, db_ok)
        c == create_conversation(s, conversation_title, selected_model, db_ok)
        s1 == IF existing.id = None THEN c.st ELSE s
    IN [st |-> AddMessages(s1, conversation_id, session_messages, db_ok),
        created |-> IF existing.id = None /\ c.ret # None
                    THEN {[id |-> c.ret, title |-> conversation_title,
                           model |-> selected_model]}
                    ELSE {}]

ForceSave ==
    /\ Step
    /\ UNCHANGED side_vars
    /\ \E o \in DbOracles :
       LET f == force_save(St, o.db_ok)
           r == rerun_save(f.st, o.db_ok)
       IN /\ WithinBounds(r.st)
          /\ Commit(r.st)
          /\ last' = [op |-> "force_save",
                      created |-> f.created \cup r.created]
          /\ UNCHANGED <<conversation_id, conversation_title, session_messages,
                         selected_model>>

\* the title text input: UPDATE conversations SET title = ? WHERE id = ?
update_title(s, id, new_title, db_ok) ==
    IF db_ok
    THEN [s EXCEPT !.conversations =
            {IF c.id = id THEN [c EXCEPT !.title = new_title] ELSE c : c \in @}]
    ELSE s

UpdateTitle ==
    /\ Step
    /\ UNCHANGED side_vars
    /\ \E new_title \in Titles, o \in DbOracles :
       LET s1 == update_title(St, conversation_id, new_title, o.db_ok)
           r == IF Len(session_messages) > 0
                THEN save_conversation_to_db(s1, conversation_id, new_title,
                         selected_model, session_messages, o.db_ok)
                ELSE [st |-> s1, ret |-> TRUE, created |-> {}]
       IN /\ new_title # conversation_title
          /\ WithinBounds(r.st)
          /\ Commit(r.st)
          /\ conversation_title' = new_title
          /\ last' = [op |-> "title", created |-> r.created]
          /\ UNCHANGED <<conversation_id, session_messages, selected_model>>

\* "Clear Current Conversation" button
ClearCurrentConversation ==
    /\ Step
    /\ UNCHANGED side_vars
    /\ conversation_id' = uuid4(St)
    /\ conversation_title' = DefaultTitle
    /\ session_messages' = <<>>
    /\ last' = [op |-> "new"]
    /\ UNCHANGED <<conversations, messages, vectors, collection,
                   langchain_chroma, was_reset, chroma_reset, selected_model>>

\* the sidebar's RAG settings
SidebarSettings ==
    {[use_rag |-> FALSE, use_semantic |-> TRUE, use_text |-> TRUE,
      context_results |-> MaxLimit],
     [use_rag |-> TRUE, use_semantic |-> FALSE, use_text |-> TRUE,
      context_results |-> MaxLimit],
     [use_rag |-> TRUE, use_semantic |-> TRUE, use_text |-> TRUE,
      context_results |-> MaxLimit]}

\* the RAG save after the response: the whole conversation on the first
\* turn, the last assistant message on later turns
rag_save(s, msgs, o) ==
    LET is_new == Len(msgs) <= 2
        last_message == msgs[Len(msgs)]
    IN IF is_new
       THEN add_conversation_to_stores(s, conversation_id, conversation_title,
                                       selected_model, msgs, o)
       ELSE IF last_message.role = "assistant"
       THEN [st |-> add_message_to_stores(s, conversation_id, last_message.role,
                        last_message.content, conversation_title, o).st,
             ret |-> TRUE, created |-> {}]
       ELSE [st |-> s, ret |-> TRUE, created |-> {}]

\* The ways through the generation of the assistant's response.
\*   agent         : get_agent returned an agent (FALSE: None)
\*   stream_option : the sidebar's "Enable streaming" checkbox
\*   stream        : "ok"         agent.stream and its iteration succeed
\*                   "type_error" they raise TypeError or AttributeError
\*                   "error"      they raise another exception
\*   run           : the first agent.run of the invocation: "content" (a
\*                   response with a content), "no_content", "error" (raises)
\*   rerun         : the agent.run of the handler of "Error generating
\*                   response", same outcomes
RunOutcome == {"content", "no_content", "error"}
ResponsePaths ==
    {p \in [agent : BOOLEAN, stream_option : BOOLEAN,
            stream : {"ok", "type_error", "error"},
            run : RunOutcome, rerun : RunOutcome] :
       /\ (~p.agent => p.stream_option /\ p.stream = "ok")
       /\ (~p.stream_option => p.stream = "ok" /\ p.rerun = "content")
       /\ (~p.agent \/ (p.stream_option /\ p.stream # "type_error")
             => p.run = "content")
       /\ (~p.agent \/ (p.stream_option /\ p.stream = "ok")
           \/ (p.stream_option /\ p.stream = "type_error" /\ p.run # "error")
             => p.rerun = "content")}

\* the model answers at once
Answered == [agent |-> TRUE, stream_option |-> TRUE, stream |-> "ok",
             run |-> "content", rerun |-> "content"]

\* the texts stored in place of a response (shortened)
CouldNotConnect == <<"!", "1">>    \* "Could not connect to Ollama. ..."
FailedToGet == <<"!", "2">>        \* "Failed to get response from Ollama"
FailedToCommunicate == <<"!", "3">> \* "Failed to communicate with Ollama: ..."
ErrorTexts == {CouldNotConnect, FailedToGet, FailedToCommunicate}

\* variant: the message is appended by the try block and by its handler
AppendAssistantTwice(msgs, content) ==
    msgs \o <<SessionMessage("assistant", content),
              SessionMessage("assistant", content)>>

\* st.session_state.messages.append({"role": "assistant", "content": ...})
AppendAssistant(msgs, content) ==
    Append(msgs, SessionMessage("assistant", content))

\* agent.run in a handler: the content, or one of two error texts
run_fallback(msgs, outcome, answer) ==
    CASE outcome = "content" -> AppendAssistant(msgs, answer)
      [] outcome = "no_content" -> AppendAssistant(msgs, FailedToGet)
      [] OTHER -> AppendAssistant(msgs, FailedToCommunicate)

\* "Display assistant response": msgs ends with the user's message
assistant_response(msgs, p, answer) ==
    IF ~p.agent THEN AppendAssistant(msgs, CouldNotConnect)
    ELSE IF p.stream_option
    THEN CASE p.stream = "ok" -> AppendAssistant(msgs, answer)
           [] p.stream = "type_error" ->
                \* run_response.content, or str(run_response)
                IF p.run # "error" THEN AppendAssistant(msgs, answer)
                ELSE run_fallback(msgs, p.rerun, answer)
           [] OTHER -> run_fallback(msgs, p.rerun, answer)
    ELSE run_fallback(msgs, p.run, answer)

\* how many of the rows appended to table messages since `before` hold
\* the turn's user message and how many its assistant message
TurnRows(before, after, c, prompt, answer) ==
    LET appended == SubSeq(after, Len(before) + 1, Len(after))
        Rows(role, content) ==
            Cardinality({i \in 1..Len(appended) :
                            /\ appended[i].conversation_id = c
                            /\ appended[i].role = role
                            /\ appended[i].content = content})
    IN [user |-> Rows("user", prompt), assistant |-> Rows("assistant", answer)]

\* a prompt typed into the chat input: page save, search for context,
\* response, save, RAG save
submit_prompt(answers, outcomes, paths) ==
    /\ Step
    /\ UNCHANGED side_vars
    /\ \E prompt \in Prompts, answer \in answers, w \in SidebarSettings,
          path \in paths :
       \E o \in outcomes \cap
                 RelevantOracles(w.use_rag /\ w.use_semantic /\ ~chroma_reset
                                    /\ langchain_chroma,
                                 ~chroma_reset /\ collection) :
       LET r0 == rerun_save(St, o.db_ok)
           searching == w.use_rag /\ (w.use_semantic \/ w.use_text)
           ranking == CHOOSE rk \in Rankings(r0.st.vectors) : TRUE
           s1 == IF searching
                 THEN rag_search(r0.st, prompt, w.use_semantic, w.use_text,
                                 w.context_results, o, ranking).st
                 ELSE r0.st
           msgs == assistant_response(
                      Append(session_messages, SessionMessage("user", prompt)),
                      path, answer)
           r2 == save_conversation_to_db(s1, conversation_id, conversation_title,
                                         selected_model, msgs, o.db_ok)
           r3 == rag_save(r2.st, msgs, o)
       IN /\ Len(msgs) <= MaxSession
          /\ WithinBounds(r3.st)
          /\ Commit(r3.st)
          /\ session_messages' = msgs
          /\ last' = [op |-> "prompt",
                      created |-> r0.created \cup r2.created \cup r3.created,
                      db_ok |-> o.db_ok, path |-> path,
                      saved |-> Cardinality(MessagesOf(r2.st, conversation_id)),
                      written |-> TurnRows(s1.messages, r3.st.messages,
                                           conversation_id, prompt,
                                           msgs[Len(msgs)].content)]
          /\ UNCHANGED <<conversation_id, conversation_title, selected_model>>

SubmitPrompt == submit_prompt(Responses, PromptOracles, {Answered})

\* ------------------------------------------------- pages/2_History.py
ConversationIds == {c.id : c \in conversations}

\* "Load in Chat" on a displayed conversation
LoadInChat ==
    /\ Step
    /\ UNCHANGED side_vars
    /\ \E c \in ConversationIds :
       LET conversation == get_conversation(St, c, TRUE)
           loaded == [i \in 1..Len(conversation.messages) |->
                        SessionMessage(conversation.messages[i].role,
                                       conversation.messages[i].content)]
       IN /\ Len(loaded) <= MaxSession
          /\ conversation_id' = c
          /\ conversation_title' = conversation.title
          /\ session_messages' = loaded
          /\ last' = [op |-> "load"]
          /\ UNCHANGED <<conversations, messages, vectors, collection,
                         langchain_chroma, was_reset, chroma_reset,
                         selected_model>>

\* "Delete" on a displayed conversation
DeleteConversation ==
    /\ Step
    /\ UNCHANGED side_vars
    /\ \E c \in ConversationIds :
       \E o \in {x \in DeleteOracles :
                   chroma_reset \/ ~collection => x.get = "ok" /\ x.del = "ok"} :
       LET r == rag_delete_conversation(St, c, o)
       IN /\ Commit(r.st)
          /\ last' = [op |-> "delete", conversation_id |-> c, ret |-> r.ret,
                      rows |-> Cardinality(MessagesOf(St, c)),
                      records |-> Cardinality({v \in vectors :
                                     v.metadata.conversation_id = c})]
          /\ UNCHANGED <<conversation_id, conversation_title, session_messages,
                         selected_model>>

\* ------------------------------------------------- RAGSystem.search
Search ==
    /\ budget > 0
    /\ budget' = 0
    /\ UNCHANGED side_vars
    /\ \E query \in Queries, use_semantic \in BOOLEAN, use_text \in BOOLEAN,
       limit \in 0..MaxLimit :
       \E o \in {x \in SearchOracles :
                   /\ (~use_text => x.db_ok)
                   /\ (~(use_semantic /\ ~chroma_reset /\ langchain_chroma)
                         => x.search = "ok")},
          ranking \in Rankings(IF use_semantic /\ limit > 0 THEN vectors ELSE {}) :
          LET r == rag_search(St, query, use_semantic, use_text, limit, o, ranking)
          IN /\ Commit(r.st)
             /\ last' = [op |-> "search", query |-> query,
                         use_semantic |-> use_semantic, use_text |-> use_text,
                         limit |-> limit, ret |-> r.ret, results |-> r.results,
                         unique_results |-> r.unique_results,
                         keyword_hits |-> TextVisit(St,
                             search_conversations(St, query, limit, o.db_ok),
                             o.db_ok),
                         initialised |-> langchain_chroma]
             /\ UNCHANGED <<conversation_id, conversation_title,
                            session_messages, selected_model>>

Next ==
    \/ AppStart
    \/ StartNewConversation
    \/ ChatRerun
    \/ ForceSave
    \/ UpdateTitle
    \/ ClearCurrentConversation
    \/ SubmitPrompt
    \/ LoadInChat
    \/ DeleteConversation

Spec == Init /\ [][Next]_vars

\* the relational store on its own: the vector store failed to initialise,
\* so no handler reaches ChromaDB
DbInit == Start(MaxSteps) /\ ~collection

DbNext ==
    \/ StartNewConversation
    \/ ChatRerun
    \/ ForceSave
    \/ UpdateTitle
    \/ ClearCurrentConversation
    \/ SubmitPrompt
    \/ LoadInChat
    \/ DeleteConversation

DbSpec == DbInit /\ [][DbNext]_vars

\* RAGSystem.search applied to the stores the handlers build: long
\* responses, no failure while the stores are filled, then one search
SubmitLongPrompt == submit_prompt(LongResponses, {AllOk}, {Answered})

SearchInit == Start(MaxSearchSteps)

SearchNext ==
    \/ ForceSave
    \/ LoadInChat
    \/ SubmitLongPrompt
    \/ Search

SearchSpec == SearchInit /\ [][SearchNext]_vars

\* ------------------------------------------------- SQLiteManager.conn
\* The threads that use the one SQLiteManager.  threading.get_ident() is
\* unique among the live threads; the identifier of a finished thread may
\* be given to a later thread.
Threads == 1..MaxThreads
Idents == 1..MaxIdents
Live == {t \in Threads : threads[t].state = "live"}

\* the variables of the page handlers
page_vars == <<conversations, messages, vectors, collection, langchain_chroma,
               was_reset, chroma_reset, conversation_id, conversation_title,
               session_messages, selected_model, budget,
               chroma_warnings_flag, ollama_models, ollama_connected>>

ThreadStart ==
    \E i \in Idents :
       LET t == CHOOSE n \in Threads :
                  /\ threads[n].state = "new"
                  /\ \A m \in 1..(n - 1) : threads[m].state # "new"
       IN /\ \E n \in Threads : threads[n].state = "new"
          /\ \A u \in Live : threads[u].ident # i
          /\ threads' = [threads EXCEPT ![t] = [state |-> "live", ident |-> i,
                                                got |-> {}]]
          /\ last' = [op |-> "thread_start", thread |-> t]
          /\ UNCHANGED <<_connections, handles>>
          /\ UNCHANGED singleton_vars
          /\ UNCHANGED page_vars

ThreadExit ==
    \E t \in Live :
       /\ threads' = [threads EXCEPT ![t].state = "done"]
       /\ last' = [op |-> "thread_exit", thread |-> t]
       /\ UNCHANGED <<_connections, handles>>
       /\ UNCHANGED singleton_vars
       /\ UNCHANGED page_vars

\* thread_id in self._connections, self._connections[thread_id]
HasKey(d, k) == \E i \in 1..Len(d) : d[i].key = k
Lookup(d, k) == d[CHOOSE i \in 1..Len(d) : d[i].key = k].value

\* the property conn read by thread t: the connection stored under the
\* thread's identifier, opened and stored first when there is none
conn(t) ==
    LET thread_id == threads[t].ident
        missing == ~HasKey(_connections, thread_id)
        connection == Len(handles) + 1
        opened == IF missing
                  THEN Append(handles, [creator |-> t, ident |-> thread_id,
                                        closed_by |-> None])
                  ELSE handles
        stored == IF missing
                  THEN Append(_connections,
                              [key |-> thread_id, value |-> connection])
                  ELSE _connections
        ret == Lookup(stored, thread_id)
    IN /\ Len(opened) <= MaxHandles
       /\ handles' = opened
       /\ _connections' = stored
       /\ threads' = [threads EXCEPT ![t].got = @ \cup {ret}]
       /\ last' = [op |-> "conn", thread |-> t, ret |-> ret]
       /\ UNCHANGED singleton_vars
       /\ UNCHANGED page_vars

ConnAccess == \E t \in Live : conn(t)

\* the loop of close_all run by thread t over the dictionary's values:
\* sqlite3 refuses (ProgrammingError) to close a connection when the
\* caller's thread identifier is not the one the connection was opened
\* under, which ends the loop
RECURSIVE CloseLoop(_, _, _)
CloseLoop(entries, hs, t) ==
    IF entries = <<>> THEN [handles |-> hs, raised |-> FALSE]
    ELSE LET c == Head(entries).value
         IN IF hs[c].ident # threads[t].ident
            THEN [handles |-> hs, raised |-> TRUE]
            ELSE CloseLoop(Tail(entries),
                           [hs EXCEPT ![c].closed_by = IF @ = None THEN t ELSE @],
                           t)

close_all(t) ==
    LET r == CloseLoop(_connections, handles, t)
    IN /\ handles' = r.handles
       /\ _connections' = IF r.raised THEN _connections ELSE <<>>
       /\ last' = [op |-> "close_all", thread |-> t, raised |-> r.raised]
       /\ UNCHANGED threads
       /\ UNCHANGED singleton_vars
       /\ UNCHANGED page_vars

CloseAll == \E t \in Live : close_all(t)

ConnInit == Start(0) /\ collection /\ ~was_reset

ConnNext ==
    \/ ThreadStart
    \/ ThreadExit
    \/ ConnAccess
    \/ CloseAll

ConnSpec == ConnInit /\ [][ConnNext]_vars

\* ------------------------------------------------- SQLiteManager.__new__
\* Threads that call SQLiteManager(db_path) at the same time, one statement
\* of __new__ / __init__ at a time, starting from the class as the import
\* leaves it. A thread may call the constructor again when its call is over.
Position(t) == callers[t].pc

At(t, pc, next) ==
    /\ Position(t) = pc
    /\ callers' = [callers EXCEPT ![t].pc = next]

ctor_unchanged ==
    /\ last' = last
    /\ UNCHANGED <<threads, _connections, handles>>
    /\ UNCHANGED page_vars

\* variant: the with statement does not wait for the lock
lock_ignored(t) == TRUE

\* with cls._lock: blocks while another thread holds the lock
lock_free(t) == _lock = None

SingletonCall ==
    \E t \in Threads, db_path \in DbPaths :
       /\ Position(t) \in {"idle", "done"}
       /\ Step
       /\ callers' = [callers EXCEPT ![t] = [pc |-> "with", db_path |-> db_path,
                                             ret |-> None]]
       /\ last' = [op |-> "construct", thread |-> t, db_path |-> db_path]
       /\ UNCHANGED <<_instance, _lock, instances, threads, _connections,
                      handles>>
       /\ UNCHANGED <<conversations, messages, vectors, collection,
                      langchain_chroma, was_reset, chroma_reset,
                      conversation_id, conversation_title, session_messages,
                      selected_model, chroma_warnings_flag, ollama_models,
                      ollama_connected>>

LockAcquire ==
    \E t \in Threads :
       /\ lock_free(t)
       /\ At(t, "with", "if")
       /\ _lock' = t
       /\ UNCHANGED <<_instance, instances>>
       /\ ctor_unchanged

\* if cls._instance is None
CheckInstance ==
    \E t \in Threads :
       /\ At(t, "if", IF _instance = None THEN "new" ELSE "return")
       /\ UNCHANGED <<_instance, _lock, instances>>
       /\ ctor_unchanged

\* cls._instance = super(SQLiteManager, cls).__new__(cls)
CreateInstance ==
    \E t \in Threads :
       /\ At(t, "new", "db_path")
       /\ instances' = Append(instances,
                              [db_path |-> NoPath, _connections |-> None])
       /\ _instance' = Len(instances) + 1
       /\ UNCHANGED _lock
       /\ ctor_unchanged

\* cls._instance.db_path = db_path
SetDbPath ==
    \E t \in Threads :
       /\ At(t, "db_path", "_connections")
       /\ instances' = [instances EXCEPT
                           ![_instance].db_path = callers[t].db_path]
       /\ UNCHANGED <<_instance, _lock>>
       /\ ctor_unchanged

\* cls._instance._connections = {} : a dictionary of its own
SetConnections ==
    \E t \in Threads :
       /\ At(t, "_connections", "return")
       /\ instances' = [instances EXCEPT ![_instance]._connections =
                           1 + Cardinality({i \in 1..Len(instances) :
                                   instances[i]._connections # None})]
       /\ UNCHANGED <<_instance, _lock>>
       /\ ctor_unchanged

\* return cls._instance, which leaves the with block
ReturnInstance ==
    \E t \in Threads :
       /\ Position(t) = "return"
       /\ callers' = [callers EXCEPT ![t].pc = "__init__",
                                     ![t].ret = _instance]
       /\ _lock' = IF _lock = t THEN None ELSE _lock
       /\ UNCHANGED <<_instance, instances>>
       /\ ctor_unchanged

\* __init__ runs on the object __new__ returned: self.db_path = db_path
RunInit ==
    \E t \in Threads :
       /\ At(t, "__init__", "done")
       /\ instances' = [instances EXCEPT
                           ![callers[t].ret].db_path = callers[t].db_path]
       /\ UNCHANGED <<_instance, _lock>>
       /\ ctor_unchanged

SingletonInit ==
    /\ SessionState(MaxConstructions, TRUE, {OllamaDown})
    /\ collection /\ ~was_reset
    /\ NotConstructed

SingletonNext ==
    \/ SingletonCall
    \/ LockAcquire
    \/ CheckInstance
    \/ CreateInstance
    \/ SetDbPath
    \/ SetConnections
    \/ ReturnInstance
    \/ RunInit

SingletonSpec == SingletonInit /\ [][SingletonNext]_vars

\* ------------------------------------------------- VectorStore
\* The operations of the RAGSystem's VectorStore called one at a time,
\* with every outcome of the calls into ChromaDB.
VectorOracles == {o \in Oracles : o.db_ok /\ o.init = "ok"}

VsInit ==
    \E o \in InitOracles :
       LET s == vector_store_init(St, o)
       IN /\ Commit(s)
          /\ last' = [op |-> "vs_init", mismatch |-> o.init = "dim",
                      recovered |-> o.recreate = "ok", before |-> vectors]
          /\ UNCHANGED <<conversation_id, conversation_title, session_messages,
                         selected_model, budget>>
          /\ UNCHANGED side_vars

VsAddMessage ==
    \E content \in Responses, c \in 1..MaxConvs :
    \E o \in {x \in VectorOracles :
                /\ x.search = "ok" /\ x.get = "ok" /\ x.del = "ok"
                /\ (x.add # "dim" \/ ~collection => x.recreate = "ok")
                /\ (x.add # "dim" \/ x.recreate # "ok" \/ ~collection
                      => x.retry = "ok")} :
       LET message_id == uuid4(St)
           metadata == Metadata(c, DefaultTitle, "assistant")
           r == vs_add_message(St, message_id, content, metadata, o)
       IN /\ Cardinality(r.st.vectors) <= MaxVectors
          /\ Commit(r.st)
          /\ last' = [op |-> "vs_add", mismatch |-> collection /\ o.add = "dim",
                      recovered |-> o.recreate = "ok", before |-> vectors,
                      record |-> VectorRecord(message_id, content, metadata),
                      ret |-> r.ret, adds |-> r.adds]
          /\ UNCHANGED <<conversation_id, conversation_title, session_messages,
                         selected_model, budget>>
          /\ UNCHANGED side_vars

VsSemanticSearch ==
    \E n_results \in 1..MaxLimit :
    \E o \in {x \in VectorOracles :
                /\ x.add = "ok" /\ x.retry = "ok" /\ x.get = "ok"
                /\ x.del = "ok"
                /\ (x.search # "dim" \/ ~langchain_chroma
                      => x.recreate = "ok")} :
    \E ranking \in Rankings(vectors) :
       LET r == semantic_search(St, n_results, o, ranking)
       IN /\ Commit(r.st)
          /\ last' = [op |-> "vs_search",
                      mismatch |-> langchain_chroma /\ o.search = "dim",
                      recovered |-> o.recreate = "ok", before |-> vectors,
                      ret |-> r.ret]
          /\ UNCHANGED <<conversation_id, conversation_title, session_messages,
                         selected_model, budget>>
          /\ UNCHANGED side_vars

VsDeleteConversationMessages ==
    \E c \in 1..MaxConvs :
    \E o \in {x \in VectorOracles :
                /\ x.add = "ok" /\ x.search = "ok" /\ x.retry = "ok"
                /\ x.recreate = "ok"
                /\ (x.get = "err" \/ ~collection => x.del = "ok")} :
       LET r == delete_conversation_messages(St, c, o)
       IN /\ Commit(r.st)
          /\ last' = [op |-> "vs_delete", mismatch |-> FALSE,
                      recovered |-> FALSE, before |-> vectors, ret |-> r.ret]
          /\ UNCHANGED <<conversation_id, conversation_title, session_messages,
                         selected_model, budget>>
          /\ UNCHANGED side_vars

VectorInit == Start(0)

VectorNext ==
    \/ VsInit
    \/ VsAddMessage
    \/ VsSemanticSearch
    \/ VsDeleteConversationMessages

VectorSpec == VectorInit /\ [][VectorNext]_vars

\* ------------------------------------------------- RAGSystem
\* The four operations of a RAGSystem called one at a time, in the first
\* session of a server process and in a later one, which does not have
\* chroma_warnings_shown. A RAGSystem exists in a later session only when
\* its VectorStore was built without an error, and there the outcomes are
\* limited to the ones that do not start the recreation of the collection.
RagOracles ==
    {o \in Oracles : /\ o.init = "ok"
                     /\ (~chroma_warnings_flag
                           => o.add # "dim" /\ o.search # "dim")}

RagSearch ==
    /\ Step
    /\ UNCHANGED side_vars
    /\ \E query \in Queries, use_semantic \in BOOLEAN, use_text \in BOOLEAN,
       limit \in 1..MaxLimit :
       \E o \in {x \in RagOracles \cap SearchOracles :
                   /\ (~use_text => x.db_ok)
                   /\ (~(use_semantic /\ ~chroma_reset /\ langchain_chroma)
                         => x.search = "ok")} :
          LET ranking == CHOOSE rk \in Rankings(vectors) : TRUE
              r == rag_search(St, query, use_semantic, use_text, limit, o,
                              ranking)
          IN /\ Commit(r.st)
             /\ last' = [op |-> "rag_search", failed |-> o # AllOk,
                         raised |-> r.raised, calls |-> r.calls,
                         use_semantic |-> use_semantic]
             /\ UNCHANGED <<conversation_id, conversation_title,
                            session_messages, selected_model>>

RagAddMessage ==
    /\ Step
    /\ UNCHANGED side_vars
    /\ \E c \in 1..MaxConvs, role \in {"user", "assistant"},
          content \in Prompts :
       \E o \in {x \in RagOracles \cap PromptOracles :
                   /\ x.search = "ok"
                   /\ (role # "assistant" \/ chroma_reset \/ ~collection
                       \/ ~x.db_ok => x.add = "ok" /\ x.recreate = "ok")} :
          LET r == add_message_to_stores(St, c, role, content, DefaultTitle, o)
          IN /\ WithinBounds(r.st)
             /\ Commit(r.st)
             /\ last' = [op |-> "rag_add_message", failed |-> o # AllOk,
                         raised |-> r.raised, calls |-> r.calls,
                         role |-> role, ret |-> r.ret]
             /\ UNCHANGED <<conversation_id, conversation_title,
                            session_messages, selected_model>>

RagAddConversation ==
    /\ Step
    /\ UNCHANGED side_vars
    /\ \E c \in 1..MaxConvs, prompt \in Prompts, answer \in Prompts :
       \E o \in {x \in RagOracles \cap PromptOracles :
                   /\ x.search = "ok"
                   /\ (chroma_reset \/ ~collection
                         => x.add = "ok" /\ x.recreate = "ok")} :
          LET msgs == <<SessionMessage("user", prompt),
                        SessionMessage("assistant", answer)>>
              r == add_conversation_to_stores(St, c, DefaultTitle,
                                              DefaultModel, msgs, o)
          IN /\ WithinBounds(r.st)
             /\ Commit(r.st)
             /\ last' = [op |-> "rag_add_conversation", failed |-> o # AllOk,
                         raised |-> r.raised, calls |-> r.calls]
             /\ UNCHANGED <<conversation_id, conversation_title,
                            session_messages, selected_model>>

RagDeleteConversation ==
    /\ Step
    /\ UNCHANGED side_vars
    /\ \E c \in 1..MaxConvs :
       \E o \in {x \in RagOracles \cap DeleteOracles :
                   chroma_reset \/ ~collection
                      => x.get = "ok" /\ x.del = "ok"} :
          LET r == rag_delete_conversation(St, c, o)
          IN /\ Commit(r.st)
             /\ last' = [op |-> "rag_delete", failed |-> o # AllOk,
                         raised |-> r.raised, calls |-> r.calls]
             /\ UNCHANGED <<conversation_id, conversation_title,
                            session_messages, selected_model>>

RagInit ==
    \E flag \in BOOLEAN :
       /\ StartSession(MaxRagSteps, flag, {OllamaDown})
       /\ ~flag => collection /\ ~was_reset

RagNext ==
    \/ RagSearch
    \/ RagAddMessage
    \/ RagAddConversation
    \/ RagDeleteConversation

RagSpec == RagInit /\ [][RagNext]_vars

\* ------------------------------------------------- app.py, Ollama check
\* The start-up script executed again and again in one session, with every
\* answer of the Ollama server; only the check of the connection runs
\* again, the session's other entries exist already.
AppRerun ==
    \E oc \in OllamaOutcomes :
       LET s == ollama_check([ollama_models |-> ollama_models,
                              ollama_connected |-> ollama_connected],
                             TRUE, oc)
       IN /\ ollama_models' = s.ollama_models
          /\ ollama_connected' = s.ollama_connected
          /\ last' = [op |-> "app", ollama |-> oc]
          /\ UNCHANGED <<conversations, messages, vectors, collection,
                         langchain_chroma, was_reset, chroma_reset,
                         conversation_id, conversation_title,
                         session_messages, selected_model, budget, threads,
                         _connections, handles, chroma_warnings_flag>>
          /\ UNCHANGED singleton_vars

OllamaInit == StartSession(0, TRUE, OllamaOutcomes)

OllamaNext == AppRerun

OllamaSpec == OllamaInit /\ [][OllamaNext]_vars

\* ------------------------------------------------- pages/1_Chat.py, response
\* Prompts submitted one after another, with every way through the
\* generation of the response; the vector store is not initialised and
\* SQLite works or fails.
SubmitAnyPrompt == submit_prompt({Short}, DbOracles, ResponsePaths)

ChatInit == Start(MaxSteps) /\ ~collection

ChatNext ==
    \/ SubmitAnyPrompt
    \/ ClearCurrentConversation

ChatSpec == ChatInit /\ [][ChatNext]_vars

\* ------------------------------------------------------------ properties
\* the conversations the last handler created through create_conversation
Created == IF "created" \in DOMAIN last THEN last.created ELSE {}

\* C1: a conversation created with a title and a model by
\* create_conversation, which returned its id, is returned by
\* get_conversation under that id with that title and that model and with
\* an empty list of messages
C1_CreateGetRoundTrip ==
    \A c \in Created :
       LET got == get_conversation(St, c.id, TRUE)
       IN /\ got.id = c.id
          /\ got.title = c.title
          /\ got.model = c.model
          /\ got.messages = <<>>

\* a handler has created a conversation with a title and a model that are
\* not the defaults, while the messages table holds rows
C1_Witness ==
    /\ \E c \in Created : c.title = "T" /\ c.model = "mistral"
    /\ Len(messages) > 0

\* C2: after delete_conversation(c) has returned True the conversations
\* table has no row with id c, the messages table has no row whose
\* conversation_id is c, and get_conversation(c) returns None
C2_DeleteRemovesRows ==
    last.op = "delete" /\ last.ret =>
       /\ \A c \in conversations : c.id # last.conversation_id
       /\ \A i \in 1..Len(messages) :
             messages[i].conversation_id # last.conversation_id
       /\ get_conversation(St, last.conversation_id, TRUE) = NoConversation

\* a conversation that had messages has been deleted, while the rows of
\* another conversation id stay in the table
C2_Witness ==
    /\ last.op = "delete" /\ last.ret
    /\ last.rows > 0
    /\ Len(messages) > 0

\* C3: after RAGSystem.delete_conversation(c) has returned True the vector
\* store holds no record whose metadata conversation_id is c, whatever
\* resets and failed vector-store calls came before
C3_DeleteRemovesVectors ==
    last.op = "delete" /\ last.ret =>
       \A v \in vectors : v.metadata.conversation_id # last.conversation_id

\* C4: every row of the messages table with role assistant has a vector
\* record with the same conversation id and the same text
C4_AssistantMessagesEmbedded ==
    \A i \in 1..Len(messages) :
       messages[i].role = "assistant" =>
          \E v \in vectors :
             /\ v.metadata.conversation_id = messages[i].conversation_id
             /\ v.document = messages[i].content

\* C5: the conversation_id of every row of the messages table is the id
\* of a row of the conversations table
C5_ForeignKey ==
    \A i \in 1..Len(messages) :
       \E c \in conversations : c.id = messages[i].conversation_id


\* C6: the list returned by RAGSystem.search holds no two items with the
\* same conversation id and the same first 50 characters of content
C6_NoDuplicates ==
    last.op = "search" =>
       \A i, j \in 1..Len(last.ret) :
          i # j => ~(/\ last.ret[i].conversation_id = last.ret[j].conversation_id
                     /\ Take(last.ret[i].content, KeyPrefixLen)
                          = Take(last.ret[j].content, KeyPrefixLen))

\* a search whose merged candidates held a duplicate and which returned
\* something
C6_Witness ==
    /\ last.op = "search"
    /\ Len(last.results) > Len(last.unique_results)
    /\ Len(last.ret) > 0

\* C7: for a limit >= 0, RAGSystem.search returns at most limit items
C7_Bounded ==
    last.op = "search" /\ last.limit >= 0 => Len(last.ret) <= last.limit

\* a search with both sources on, with more keyword hits and more vector
\* records than the limit, which returned limit items
C7_Witness ==
    /\ last.op = "search" /\ last.use_text /\ last.use_semantic
    /\ last.limit > 0
    /\ Len(last.keyword_hits) > last.limit
    /\ Cardinality(vectors) > last.limit
    /\ Len(last.ret) = last.limit

\* C8: in the returned list no semantic-search item precedes a
\* keyword-search item; an item whose dedup key is the key of a keyword
\* hit is the keyword hit; and when the keyword hits have at least limit
\* distinct keys, no semantic-search item is returned
C8_MergeOrder ==
    last.op = "search" /\ last.use_text =>
       LET ret == last.ret
           hits == [i \in 1..Len(last.keyword_hits) |->
                      TextItem(last.keyword_hits[i].conv, last.keyword_hits[i].msg)]
           keys == {DedupKey(hits[i]) : i \in 1..Len(hits)}
       IN /\ \A i, j \in 1..Len(ret) :
                i < j => ~(/\ ret[i].source = "semantic_search"
                           /\ ret[j].source = "text_search")
          /\ \A i \in 1..Len(ret) :
                DedupKey(ret[i]) \in keys => ret[i].source = "text_search"
          /\ Cardinality(keys) >= last.limit =>
                \A i \in 1..Len(ret) : ret[i].source = "text_search"

\* C9: a candidate result is dropped by the deduplication only if an
\* earlier candidate has the same conversation id and the same first 50
\* characters; a candidate that differs from every earlier one in the
\* conversation id or in that prefix is among the deduplicated results
C9_DistinctSurvive ==
    last.op = "search" =>
       \A i \in 1..Len(last.results) :
          (\A j \in 1..(i - 1) :
              \/ last.results[j].conversation_id # last.results[i].conversation_id
              \/ Take(last.results[j].content, KeyPrefixLen)
                   # Take(last.results[i].content, KeyPrefixLen))
          => \E k \in 1..Len(last.unique_results) :
                last.unique_results[k] = last.results[i]

\* a search whose candidates held two items of different conversations
\* with the same first 50 characters, both kept
C9_Witness ==
    /\ last.op = "search"
    /\ \E i, j \in 1..Len(last.results) :
          /\ last.results[i].conversation_id # last.results[j].conversation_id
          /\ Take(last.results[i].content, KeyPrefixLen)
               = Take(last.results[j].content, KeyPrefixLen)
    /\ Len(last.unique_results) = Len(last.results)

\* C10: when the vector store failed to initialise, the semantic search
\* contributes nothing and a search with use_text returns the keyword
\* hits for the query (deduplicated and cut to limit)
C10_KeywordSearchContinues ==
    last.op = "search" /\ ~last.initialised =>
       LET hits == [i \in 1..Len(last.keyword_hits) |->
                      TextItem(last.keyword_hits[i].conv, last.keyword_hits[i].msg)]
       IN /\ \A i \in 1..Len(last.results) :
                last.results[i].source # "semantic_search"
          /\ last.use_text => last.ret = Slice(Dedup(hits, {}), last.limit)

\* C11: the updated_at of a conversation is not earlier than the
\* created_at of the newest message stored for it
C11_InsertionUpdatesConversation ==
    \A c \in conversations :
       \A i \in 1..Len(messages) :
          messages[i].conversation_id = c.id =>
             c.updated_at >= messages[i].created_at

\* C12: a row of the messages table is carried unchanged into the next
\* state (same id, conversation_id, role, content and created_at) unless
\* the step is a successful delete_conversation of the row's conversation
C12_MessagesImmutable ==
    [][\A i \in 1..Len(messages) :
          \/ \E j \in 1..Len(messages') : messages'[j] = messages[i]
          \/ /\ last'.op = "delete" /\ last'.ret
             /\ last'.conversation_id = messages[i].conversation_id
             /\ \A j \in 1..Len(messages') : messages'[j].id # messages[i].id]_vars

\* the title of a conversation that has messages has been changed through
\* the title input
C12_Witness ==
    /\ last.op = "title"
    /\ \E c \in conversations : c.title = "T" /\ MessagesOf(St, c.id) # {}

\* C13: the id of every vector record is the id of a row of the messages
\* table with role assistant, the record's text as content and the
\* conversation id of the record's metadata
C13_VectorsMirrorMessages ==
    \A v \in vectors :
       \E i \in 1..Len(messages) :
          /\ messages[i].id = v.id
          /\ messages[i].role = "assistant"
          /\ messages[i].content = v.document
          /\ messages[i].conversation_id = v.metadata.conversation_id

\* C14: a thread gets the same connection at every access to conn, two
\* live threads never hold the same connection, and a connection is
\* returned to and closed by no thread but the one that opened it
C14_OneConnectionPerThread ==
    /\ \A t \in Threads : Cardinality(threads[t].got) <= 1
    /\ \A t, u \in Live : t # u => threads[t].got \cap threads[u].got = {}
    /\ \A t \in Threads : \A c \in threads[t].got : handles[c].creator = t
    /\ \A c \in 1..Len(handles) :
          handles[c].closed_by \in {None, handles[c].creator}

\* C15: when the initialisation, add_message or semantic_search of the
\* vector store has met an embedding-dimension mismatch and the recovery
\* has succeeded, the collection holds none of the records it held before,
\* at most the record re-added by add_message, and was_reset is True
C15_DestructiveRecovery ==
    last.op \in {"vs_init", "vs_add", "vs_search"}
    /\ last.mismatch /\ last.recovered =>
       /\ vectors \subseteq (IF last.op = "vs_add" THEN {last.record} ELSE {})
       /\ was_reset

\* an add_message that met the mismatch on a collection that held a record,
\* recovered and re-added its own record
C15_Witness ==
    /\ last.op = "vs_add" /\ last.mismatch /\ last.recovered
    /\ last.before # {}
    /\ last.ret
    /\ vectors = {last.record}

\* C16: no failure of the relational store or of the vector store leaves
\* RAGSystem: whatever the outcome of the underlying calls, search,
\* add_message_to_stores, add_conversation_to_stores and delete_conversation
\* return a value and do not raise.
C16_NothingPropagates ==
    last.op \in {"rag_search", "rag_add_message", "rag_add_conversation",
                 "rag_delete"}
       => ~last.raised

\* C17: after every execution of the start-up script ollama_models is the
\* sorted list of the names of the installed models, as the server reports
\* them, when the server is reachable and reports at least one model, and
\* the default model list in every other case; ollama_connected is True
\* only when check_connection returned True in that execution.
C17_ModelListFallback ==
    "ollama" \in DOMAIN last =>
       LET oc == last.ollama
           named == {i \in 1..Len(oc.models) : "name" \in DOMAIN oc.models[i]}
       IN /\ IF oc.check /\ oc.tags = "ok" /\ oc.models # <<>>
             THEN /\ \A i, j \in 1..Len(ollama_models) :
                        i < j => ~StrLess(ollama_models[j], ollama_models[i])
                  /\ \A n \in InstalledNames :
                        Cardinality({i \in 1..Len(ollama_models) :
                                        ollama_models[i] = n})
                        = Cardinality({i \in named : oc.models[i].name = n})
                  /\ Len(ollama_models) = Cardinality(named)
             ELSE ollama_models = DEFAULT_MODEL_LIST
          /\ ollama_connected => oc.check

\* C17 (amended): after every execution of the start-up script
\* ollama_models is the sorted list of the reported models' names with
\* every ":latest" removed, when check_connection returned True and the
\* server reports at least one model that has a name, and the default model
\* list in every other case; ollama_connected is True only when
\* check_connection returned True in that execution.
C17_ModelListFallbackStripped ==
    "ollama" \in DOMAIN last =>
       LET oc == last.ollama
           named == {i \in 1..Len(oc.models) : "name" \in DOMAIN oc.models[i]}
           shown == {Remove(n, LatestTag) : n \in InstalledNames}
       IN /\ IF oc.check /\ oc.tags = "ok" /\ named # {}
             THEN /\ \A i, j \in 1..Len(ollama_models) :
                        i < j => ~StrLess(ollama_models[j], ollama_models[i])
                  /\ \A n \in shown :
                        Cardinality({i \in 1..Len(ollama_models) :
                                        ollama_models[i] = n})
                        = Cardinality({i \in named :
                             Remove(oc.models[i].name, LatestTag) = n})
                  /\ Len(ollama_models) = Cardinality(named)
             ELSE ollama_models = DEFAULT_MODEL_LIST
          /\ ollama_connected => oc.check

\* the server reports "m-1" before "m:latest", and a later execution finds
\* the server gone
C17_Witness ==
    /\ last.op = "app"
    /\ last.ollama.check /\ last.ollama.tags = "ok"
    /\ last.ollama.models = <<[name |-> <<"m", "-", "1">>],
                              [name |-> <<"m">> \o LatestTag]>>
    /\ ollama_models = <<<<"m">>, <<"m", "-", "1">>>>
    /\ ollama_connected

\* C18: within one invocation of VectorStore.add_message an external call
\* that failed is not attempted a second time: collection.add is issued at
\* most once.
C18_NoRetry ==
    last.op = "vs_add" => last.adds <= 1

\* C19: after save_conversation_to_db(c, title, model, messages) has
\* returned True for a conversation id c that was not stored yet,
\* get_conversation(c) returns a conversation with that title and model
\* whose messages are the given messages.
C19_StoredUnderCallersId ==
    last.op = "save" /\ last.ret /\ last.created # {} =>
       LET g == get_conversation(St, conversation_id, TRUE)
       IN /\ g.id = conversation_id
          /\ g.title = conversation_title
          /\ g.model = selected_model
          /\ [i \in 1..Len(g.messages) |->
                SessionMessage(g.messages[i].role, g.messages[i].content)]
             = session_messages

\* C20: save_conversation_to_db adds only new messages: a re-execution of
\* the chat page that saves an unchanged session message list again, after
\* a save that met no database error, adds no message row and no
\* conversation row.
C20_ResaveAddsNothing ==
    [][(last.op = "save" /\ last.db_ok /\ last'.op = "save")
          => (conversations' = conversations /\ messages' = messages)]_vars

\* C21: processing one prompt on the chat page (save_conversation_to_db,
\* then the RAG save) writes the turn's user message and the turn's
\* assistant message to the relational store exactly once each.
C21_TurnWrittenOnce ==
    last.op = "prompt" /\ last.db_ok
       => last.written.user = 1 /\ last.written.assistant = 1

\* C22: the content-based skip of save_conversation_to_db loses no
\* message: after it has returned True for the session's conversation (a
\* stored one, no database error), the relational store holds for that
\* conversation as many messages as the session message list has.
C22_NoMessageLost ==
    /\ last.op = "prompt" /\ last.db_ok
    /\ get_conversation(St, conversation_id, TRUE).id # None
    => last.saved = Len(session_messages)

\* C23: a search with use_text and without use_semantic returns only
\* assistant messages, as text_search items, and returns at least one item
\* when limit >= 1 and some conversation that has a message whose content
\* contains the query also has an assistant message (and SQLite answers).
C23_KeywordSearchContent ==
    last.op = "search" /\ last.use_text /\ ~last.use_semantic =>
       /\ \A i \in 1..Len(last.ret) :
             /\ last.ret[i].source = "text_search"
             /\ \E m \in MessagesOf(St, last.ret[i].conversation_id) :
                   m.role = "assistant" /\ m.content = last.ret[i].content
       /\ (/\ last.limit >= 1
           /\ last.keyword_hits # <<>>
           /\ \E c \in conversations :
                 /\ \E m \in MessagesOf(St, c.id) :
                       \E i \in 1..Len(m.content) :
                          /\ i + Len(last.query) - 1 <= Len(m.content)
                          /\ SubSeq(m.content, i, i + Len(last.query) - 1)
                               = last.query
                 /\ \E a \in MessagesOf(St, c.id) : a.role = "assistant")
          => last.ret # <<>>

\* C24: every submitted prompt appends exactly two entries to the session
\* message list, the user message followed by exactly one assistant message
\* (the model's response or an error text), on every path through the
\* generation of the response.
C24_TwoEntriesPerPrompt ==
    [][last'.op = "prompt" =>
          /\ Len(session_messages') = Len(session_messages) + 2
          /\ SubSeq(session_messages', 1, Len(session_messages))
               = session_messages
          /\ session_messages'[Len(session_messages) + 1].role = "user"
          /\ session_messages'[Len(session_messages) + 1].content \in Prompts
          /\ session_messages'[Len(session_messages) + 2].role = "assistant"
          /\ session_messages'[Len(session_messages) + 2].content
               \in {Short} \cup ErrorTexts]_vars

\* a second prompt whose streaming fails, whose first agent.run raises and
\* whose second agent.run raises too
C24_Witness ==
    /\ last.op = "prompt"
    /\ last.path.agent /\ last.path.stream_option
    /\ last.path.stream = "type_error" /\ last.path.run = "error"
    /\ last.path.rerun = "error"
    /\ Len(session_messages) = 4
    /\ session_messages[4] = SessionMessage("assistant", FailedToCommunicate)

\* C25: recovery after a reset. Once the collection has been re-created
\* because of an embedding-dimension mismatch (was_reset, with a working
\* collection), an assistant message that RAGSystem.add_message_to_stores
\* saves with no failure is added to the vector store under its message
\* id, and a search with use_semantic=True asks the vector store.
C25_RecoveryAfterReset ==
    [][/\ (/\ was_reset /\ collection
           /\ last'.op = "rag_add_message" /\ last'.role = "assistant"
           /\ last'.ret # None /\ ~last'.failed)
          => \E v \in vectors' : v.id = last'.ret
       /\ (/\ was_reset /\ langchain_chroma
           /\ last'.op = "rag_search" /\ last'.use_semantic
           /\ ~last'.raised)
          => last'.calls = 1]_vars

\* C26: the reset flags are sticky. In every step of a RAGSystem was_reset
\* and chroma_reset stay True once they are True, and a call of search,
\* add_message_to_stores, add_conversation_to_stores or delete_conversation
\* that starts with chroma_reset True calls no operation of the vector
\* store.
RagOps == {"rag_search", "rag_add_message", "rag_add_conversation",
           "rag_delete"}

C26_ResetFlagsSticky ==
    [][/\ was_reset => was_reset'
       /\ chroma_reset => chroma_reset'
       /\ (chroma_reset /\ last'.op \in RagOps) => last'.calls = 0]_vars

C26_Witness ==
    /\ last.op = "rag_delete" /\ last.calls = 0
    /\ chroma_reset /\ was_reset /\ collection
    /\ budget < MaxRagSteps - 1

\* C27: thread-safe singleton. Whatever the interleaving of the threads
\* that construct SQLiteManager and whatever db_path they pass, at most one
\* object is ever created, and every construction that has returned has
\* returned that object, whose _connections is the one dictionary made
\* when the object was created.
C27_ThreadSafeSingleton ==
    /\ Len(instances) <= 1
    /\ \A t \in Threads :
          callers[t].ret # None
             => /\ callers[t].ret = 1
                /\ instances[callers[t].ret]._connections = 1

C27_Witness ==
    \E t, u, w \in Threads :
       /\ callers[t].pc = "done" /\ callers[t].ret = 1
       /\ callers[u].pc = "__init__" /\ callers[u].ret = 1
       /\ callers[u].db_path # callers[t].db_path
       /\ callers[w].pc = "with"
       /\ Len(instances) = 1

====
